---- MODULE Spec2Model ----
(***************************************************************************)
(* Model of src/coord/partial_axis.rs: the PartialAxis decorator, its      *)
(* Ranged / DiscreteRanged implementations, the IntoPartialAxis            *)
(* constructor and make_partial_axis.                                      *)
(*                                                                         *)
(* Value types.  make_partial_axis is generic over T: NumCast; three        *)
(* instances are modelled: "int" (a signed integer type, IntBits wide),    *)
(* "f64", and "wide" (an integer type wider than f64's range, whose        *)
(* NumCast conversion to f64 fails for magnitudes above WideLimit).        *)
(*                                                                         *)
(* f64 values are extended rationals: [k |-> "fin", n, d] is n/d in lowest *)
(* terms, [k |-> "inf", n |-> +-1] the infinities and [k |-> "nan"] NaN.   *)
(* Division by zero, inf and NaN follow IEEE 754.  What is NOT modelled is *)
(* the rounding of finite f64 arithmetic and overflow to infinity: finite  *)
(* results are exact.  The conversions are modelled by what they do:       *)
(* integer -> f64 rounds to MantBits significant bits (ties to even),      *)
(* f64 -> integer fails on NaN, inf and out-of-range values and truncates  *)
(* toward zero otherwise, f64 -> f64 always succeeds.                      *)
(***************************************************************************)
EXTENDS Integers, Sequences, FiniteSets

\* ------------------------------------------------------------------ bounds
\* Width of the modelled signed integer type (i32 has 32).
IntBits == 5
\* Significand width of the modelled f64 for integer -> f64 conversion (53).
MantBits == 3
\* Largest max_points passed to key_points.
MaxPoints == 3
\* Largest index passed to from_index.
MaxIndex == 4
\* Largest magnitude of the "wide" integer type that converts to f64.
WideLimit == 40

VARIABLES
    axis,   \* Option<PartialAxis>: what the last constructor call returned
    call,   \* the constructor call that produced axis, with its arguments
    ret     \* the last method call on the axis: its arguments and result

vars == <<axis, call, ret>>

\* -------------------------------------------------------------- arithmetic
Abs(n) == IF n < 0 THEN -n ELSE n

Sign(n) == IF n < 0 THEN -1 ELSE IF n = 0 THEN 0 ELSE 1

RECURSIVE Pow2(_)
Pow2(e) == IF e = 0 THEN 1 ELSE 2 * Pow2(e - 1)

RECURSIVE GCD(_, _)
GCD(a, b) == IF b = 0 THEN a ELSE GCD(b, a % b)

\* floor(n / d) for d > 0
FloorDiv(n, d) == IF n >= 0 THEN n \div d ELSE -((-n + d - 1) \div d)

\* n / d truncated toward zero, d > 0
TruncDiv(n, d) == IF n >= 0 THEN n \div d ELSE -((-n) \div d)

NaN == [k |-> "nan", n |-> 0, d |-> 0]

Inf(s) == [k |-> "inf", n |-> s, d |-> 0]

\* the finite value n / d, d # 0, in lowest terms with a positive denominator
Fin(n, d) ==
    LET s == IF d < 0 THEN -1 ELSE 1
        g == GCD(Abs(n), Abs(d))
    IN  [k |-> "fin", n |-> (s * n) \div g, d |-> Abs(d) \div g]

I(n) == Fin(n, 1)

IsFin(x) == x.k = "fin"

IsNaN(x) == x.k = "nan"

\* sign of an f64 that is not NaN
SignOf(x) == Sign(x.n)

Neg(x) == IF IsFin(x) THEN Fin(-x.n, x.d) ELSE IF IsNaN(x) THEN NaN ELSE Inf(-x.n)

\* f64 addition
FAdd(x, y) ==
    IF IsNaN(x) \/ IsNaN(y) THEN NaN
    ELSE IF IsFin(x) /\ IsFin(y) THEN Fin(x.n * y.d + y.n * x.d, x.d * y.d)
    ELSE IF IsFin(x) THEN y
    ELSE IF IsFin(y) THEN x
    ELSE IF x.n = y.n THEN x ELSE NaN

\* f64 subtraction
FSub(x, y) == FAdd(x, Neg(y))

\* f64 multiplication
FMul(x, y) ==
    IF IsNaN(x) \/ IsNaN(y) THEN NaN
    ELSE IF IsFin(x) /\ IsFin(y) THEN Fin(x.n * y.n, x.d * y.d)
    ELSE IF SignOf(x) * SignOf(y) = 0 THEN NaN
    ELSE Inf(SignOf(x) * SignOf(y))

\* f64 division; a zero divisor is +0 (x - x is +0 in round-to-nearest)
FDiv(x, y) ==
    IF IsNaN(x) \/ IsNaN(y) THEN NaN
    ELSE IF IsFin(x) /\ IsFin(y) THEN
        IF y.n # 0 THEN Fin(x.n * y.d, x.d * y.n)
        ELSE IF x.n = 0 THEN NaN ELSE Inf(Sign(x.n))
    ELSE IF IsFin(x) THEN I(0)
    ELSE IF IsFin(y) THEN Inf(x.n * (IF y.n < 0 THEN -1 ELSE 1))
    ELSE NaN

\* x < y on f64: false when either is NaN
FLt(x, y) ==
    IF IsNaN(x) \/ IsNaN(y) THEN FALSE
    ELSE IF IsFin(x) /\ IsFin(y) THEN x.n * y.d < y.n * x.d
    ELSE IF IsFin(x) THEN y.n > 0
    ELSE IF IsFin(y) THEN x.n < 0
    ELSE x.n < y.n

\* x <= y on f64: false when either is NaN
FLe(x, y) == FLt(x, y) \/ (~IsNaN(x) /\ ~IsNaN(y) /\ x = y)

\* ------------------------------------------------------------------ Option
None == [some |-> FALSE, v |-> NaN]

Some(x) == [some |-> TRUE, v |-> x]

\* the absent Option<usize>
NoneUsize == [some |-> FALSE, v |-> 0]

\* ------------------------------------------------------------- conversions
IntMin == -Pow2(IntBits - 1)

IntMax == Pow2(IntBits - 1) - 1

\* the number of low bits an integer of magnitude m loses in an f64: the
\* shifts needed to bring m below 2^MantBits
RECURSIVE LostBits(_)
LostBits(m) == IF m < Pow2(MantBits) THEN 0 ELSE 1 + LostBits(m \div 2)

\* integer -> f64 (`as f64`): round to nearest, ties to even
RoundToF64(n) ==
    LET m == Abs(n)
        u == Pow2(LostBits(m))
        q == m \div u
        r == m % u
        up == 2 * r > u \/ (2 * r = u /\ q % 2 = 1)
    IN  Sign(n) * u * (IF up THEN q + 1 ELSE q)

\* num_traits::cast::<T, f64>
cast_to_f64(T, v) ==
    IF T = "int" THEN Some(I(RoundToF64(v.n)))
    ELSE IF T = "wide" /\ Abs(v.n) > WideLimit THEN None
    ELSE Some(v)

\* num_traits::cast::<f64, T>
cast_from_f64(T, x) ==
    IF T = "f64" THEN Some(x)
    ELSE IF ~IsFin(x) THEN None
    ELSE IF T = "wide" \/ (FLt(I(IntMin - 1), x) /\ FLt(x, I(IntMax + 1)))
         THEN Some(I(TruncDiv(x.n, x.d)))
         ELSE None

\* ------------------------------------------------- the inner coordinate
\* Range<T> -> its coordinate description (AsRangedCoord / From<Range<T>>)
RangedCoord_from(T, r) == [T |-> T, start |-> r[1], end |-> r[2]]

\* Ranged::range of the inner coordinate
Inner_range(c) == <<c.start, c.end>>

\* Ranged::map of the inner coordinate: linear interpolation of the value
\* between the pixel limits, rounded down; a degenerate or non-finite
\* domain gives the low limit
Inner_map(c, v, limit) ==
    LET logic == FDiv(FSub(v, c.start), FSub(c.end, c.start))
        px == FMul(I(limit[2] - limit[1]), logic)
    IN  IF IsFin(px) THEN limit[1] + FloorDiv(px.n, px.d) ELSE limit[1]

\* Ranged::key_points of the inner coordinate: at most max_points values
\* evenly spread over the full domain
Inner_key_points(c, max_points) ==
    IF ~(IsFin(c.start) /\ IsFin(c.end)) \/ max_points = 0 THEN <<>>
    ELSE LET step == FDiv(FSub(c.end, c.start), I(max_points))
         IN  [i \in 1..max_points |->
                LET p == FAdd(c.start, FMul(I(i - 1), step))
                IN  IF c.T = "f64" THEN p ELSE I(TruncDiv(p.n, p.d))]

\* DiscreteRanged::size of the inner (integer) coordinate
Inner_size(c) == IF FLt(c.start, c.end) THEN c.end.n - c.start.n ELSE 0

\* DiscreteRanged::index_of of the inner (integer) coordinate
Inner_index_of(c, v) ==
    IF FLe(c.start, v) /\ FLt(v, c.end) THEN Some(v.n - c.start.n) ELSE NoneUsize

\* DiscreteRanged::from_index of the inner (integer) coordinate
Inner_from_index(c, index) ==
    IF index < Inner_size(c) THEN Some(I(c.start.n + index)) ELSE None

\* ------------------------------------------------------------ PartialAxis
\* pub struct PartialAxis<R: Ranged>(R, Range<R::ValueType>)
PartialAxis(inner, display) == [inner |-> inner, display |-> display]

\* IntoPartialAxis::partial_axis
partial_axis(T, self, axis_range) == PartialAxis(RangedCoord_from(T, self), axis_range)

\* Clone for PartialAxis
PartialAxis_clone(self) == PartialAxis(self.inner, self.display)

\* map onto the display interval instead of the inner domain
PartialAxis_map_display(self, value, limit) ==
    Inner_map(RangedCoord_from(self.inner.T, self.display), value, limit)

\* Ranged::map for PartialAxis
PartialAxis_map(self, value, limit) == Inner_map(self.inner, value, limit)

\* key points of the display interval instead of the inner domain
PartialAxis_key_points_display(self, max_points) ==
    Inner_key_points(RangedCoord_from(self.inner.T, self.display), max_points)

\* Ranged::key_points for PartialAxis
PartialAxis_key_points(self, max_points) == Inner_key_points(self.inner, max_points)

\* Ranged::range for PartialAxis
PartialAxis_range(self) == Inner_range(self.inner)

Min(a, b) == IF a <= b THEN a ELSE b

Max(a, b) == IF a >= b THEN a ELSE b

\* axis_pixel_range without the min / max
PartialAxis_axis_pixel_range_unordered(self, limit) ==
    <<Inner_map(self.inner, self.display[1], limit),
      Inner_map(self.inner, self.display[2], limit)>>

\* Ranged::axis_pixel_range for PartialAxis
PartialAxis_axis_pixel_range(self, limit) ==
    LET left == PartialAxis_map(self, self.display[1], limit)
        right == PartialAxis_map(self, self.display[2], limit)
    IN  <<Min(left, right), Max(left, right)>>

\* DiscreteRanged::size for PartialAxis
PartialAxis_size(self) == Inner_size(self.inner)

\* index_of counted from the display interval's start
PartialAxis_index_of_display(self, value) ==
    Inner_index_of(RangedCoord_from(self.inner.T, self.display), value)

\* DiscreteRanged::index_of for PartialAxis
PartialAxis_index_of(self, value) == Inner_index_of(self.inner, value)

\* DiscreteRanged::from_index for PartialAxis
PartialAxis_from_index(self, index) == Inner_from_index(self.inner, index)

\* ------------------------------------------------------ make_partial_axis
\* let full_range_size = (right - left) / (part.end - part.start);
full_range_size(left, right, part) == FDiv(FSub(right, left), FSub(part[2], part[1]))

\* a slip in full_left: the fraction after the visible interval is used
full_left_by_end(left, right, part) ==
    FSub(left, FMul(full_range_size(left, right, part), part[2]))

\* let full_left = left - full_range_size * part.start;
full_left(left, right, part) == FSub(left, FMul(full_range_size(left, right, part), part[1]))

\* a slip in full_right: the extension is subtracted
full_right_subtracted(left, right, part) ==
    FSub(right, FMul(full_range_size(left, right, part), FSub(I(1), part[2])))

\* let full_right = right + full_range_size * (1.0 - part.end);
full_right(left, right, part) ==
    FAdd(right, FMul(full_range_size(left, right, part), FSub(I(1), part[2])))

\* `x as T`: the saturating conversion, NaN to 0
saturating_cast(T, x) ==
    IF T = "f64" THEN x
    ELSE IF IsNaN(x) THEN I(0)
    ELSE IF ~FLt(I(IntMin - 1), x) THEN I(IntMin)
    ELSE IF ~FLt(x, I(IntMax + 1)) THEN I(IntMax)
    ELSE I(TruncDiv(x.n, x.d))

\* make_partial_axis with `as` conversions in place of the checked casts
make_partial_axis_unchecked(T, axis_range, part) ==
    LET left == cast_to_f64(T, axis_range[1]).v
        right == cast_to_f64(T, axis_range[2]).v
    IN  Some(PartialAxis(
            RangedCoord_from(T, <<saturating_cast(T, full_left(left, right, part)),
                                  saturating_cast(T, full_right(left, right, part))>>),
            Inner_range(RangedCoord_from(T, axis_range))))

\* pub fn make_partial_axis<T>(axis_range: Range<T>, part: Range<f64>)
make_partial_axis(T, axis_range, part) ==
    LET left == cast_to_f64(T, axis_range[1])
        right == cast_to_f64(T, axis_range[2])
    IN  IF ~left.some THEN None
        ELSE IF ~right.some THEN None
        ELSE LET fl == cast_from_f64(T, full_left(left.v, right.v, part))
                 fr == cast_from_f64(T, full_right(left.v, right.v, part))
             IN  IF ~fl.some THEN None
                 ELSE IF ~fr.some THEN None
                 ELSE Some(PartialAxis(RangedCoord_from(T, <<fl.v, fr.v>>),
                                       Inner_range(RangedCoord_from(T, axis_range))))

\* ------------------------------------------------------------------ inputs
Types == {"int", "f64", "wide"}

\* values of type T offered to the constructors and methods
Values(T) ==
    IF T = "int" THEN {I(-3), I(0), I(1), I(4), I(Pow2(MantBits) + 1), I(IntMax)}
    ELSE IF T = "wide" THEN {I(0), I(1), I(WideLimit + 1)}
    ELSE {I(-5), I(0), I(1), I(10), I(20), Inf(1)}

\* the fractions offered as part.start and part.end
Parts == {I(0), Fin(1, 4), Fin(1, 2), Fin(3, 4), I(1)}

\* the pixel limits offered: increasing, decreasing and empty
Limits == {<<0, 100>>, <<0, 1000>>, <<100, 0>>, <<7, 7>>}

\* values of type T offered to partial_axis as range and display interval
FewValues(T) == IF T = "f64" THEN {I(0), I(10), Fin(5, 2)} ELSE {I(0), I(1), I(4)}

NoCall == [fn |-> "none", T |-> "int", axis_range |-> <<I(0), I(0)>>, part |-> <<I(0), I(0)>>]

NoRet == [op |-> "none", arg |-> <<>>, val |-> <<>>]

\* ----------------------------------------------------------------- actions
Init == axis = None /\ call = NoCall /\ ret = NoRet

\* a caller runs make_partial_axis(axis_range, part)
Call_make_partial_axis ==
    /\ call.fn = "none"
    /\ \E T \in Types : \E l \in Values(T), r \in Values(T), ps \in Parts, pe \in Parts :
        /\ axis' = make_partial_axis(T, <<l, r>>, <<ps, pe>>)
        /\ call' = [fn |-> "make_partial_axis", T |-> T,
                    axis_range |-> <<l, r>>, part |-> <<ps, pe>>]
    /\ ret' = NoRet

\* a caller runs range.partial_axis(axis_range)
Call_partial_axis ==
    /\ call.fn = "none"
    /\ \E T \in Types : \E s \in FewValues(T), e \in FewValues(T),
                           a \in FewValues(T), b \in FewValues(T) :
        /\ axis' = Some(partial_axis(T, <<s, e>>, <<a, b>>))
        /\ call' = [fn |-> "partial_axis", T |-> T,
                    axis_range |-> <<a, b>>, part |-> <<s, e>>]
    /\ ret' = NoRet

Call_map ==
    /\ axis.some /\ ret.op = "none"
    /\ \E v \in Values(axis.v.inner.T), limit \in Limits :
        ret' = [op |-> "map", arg |-> <<v, limit>>,
                val |-> PartialAxis_map(axis.v, v, limit)]
    /\ UNCHANGED <<axis, call>>

Call_key_points ==
    /\ axis.some /\ ret.op = "none"
    /\ \E n \in 0..MaxPoints :
        ret' = [op |-> "key_points", arg |-> <<n>>,
                val |-> PartialAxis_key_points(axis.v, n)]
    /\ UNCHANGED <<axis, call>>

Call_range ==
    /\ axis.some /\ ret.op = "none"
    /\ ret' = [op |-> "range", arg |-> <<>>, val |-> PartialAxis_range(axis.v)]
    /\ UNCHANGED <<axis, call>>

Call_axis_pixel_range ==
    /\ axis.some /\ ret.op = "none"
    /\ \E limit \in Limits :
        ret' = [op |-> "axis_pixel_range", arg |-> <<limit>>,
                val |-> PartialAxis_axis_pixel_range(axis.v, limit)]
    /\ UNCHANGED <<axis, call>>

\* the DiscreteRanged methods exist when the inner coordinate is discrete
Call_size ==
    /\ axis.some /\ ret.op = "none" /\ axis.v.inner.T = "int"
    /\ ret' = [op |-> "size", arg |-> <<>>, val |-> PartialAxis_size(axis.v)]
    /\ UNCHANGED <<axis, call>>

Call_index_of ==
    /\ axis.some /\ ret.op = "none" /\ axis.v.inner.T = "int"
    /\ \E v \in Values("int") :
        ret' = [op |-> "index_of", arg |-> <<v>>,
                val |-> PartialAxis_index_of(axis.v, v)]
    /\ UNCHANGED <<axis, call>>

Call_from_index ==
    /\ axis.some /\ ret.op = "none" /\ axis.v.inner.T = "int"
    /\ \E i \in 0..MaxIndex :
        ret' = [op |-> "from_index", arg |-> <<i>>,
                val |-> PartialAxis_from_index(axis.v, i)]
    /\ UNCHANGED <<axis, call>>

Call_clone ==
    /\ axis.some /\ ret.op = "none"
    /\ axis' = Some(PartialAxis_clone(axis.v))
    /\ ret' = [op |-> "clone", arg |-> <<>>, val |-> <<>>]
    /\ UNCHANGED call

\* the caller takes the result of the method call; the calls are synchronous,
\* one at a time
Return ==
    /\ ret.op # "none"
    /\ ret' = NoRet
    /\ UNCHANGED <<axis, call>>

\* the caller discards the axis (or the absent result)
Drop ==
    /\ call.fn # "none"
    /\ axis' = None /\ call' = NoCall /\ ret' = NoRet

Next ==
    \/ Call_make_partial_axis
    \/ Call_partial_axis
    \/ Call_map
    \/ Call_key_points
    \/ Call_range
    \/ Call_axis_pixel_range
    \/ Call_size
    \/ Call_index_of
    \/ Call_from_index
    \/ Call_clone
    \/ Return
    \/ Drop

Spec == Init /\ [][Next]_vars

\* ------------------------------------------------------------- properties
\* the inner coordinate C of the axis and its display interval
C == axis.v.inner

Display == axis.v.display

Windowed == axis.some /\ Display # Inner_range(C)

\* C1: D.map(v, L) equals C.map(v, L) for every value v and pixel limit L,
\* whatever the display interval is.
C1_MapIsInnerMap ==
    (axis.some /\ ret.op = "map") => ret.val = Inner_map(C, ret.arg[1], ret.arg[2])

\* a value was mapped through an axis whose display interval is not the inner
\* domain, to a pixel the display interval would not have given
C1_Witness ==
    /\ Windowed /\ ret.op = "map"
    /\ ret.val # Inner_map(RangedCoord_from(C.T, Display), ret.arg[1], ret.arg[2])

\* C2: D.axis_pixel_range(L) is the range from min(C.map(a, L), C.map(b, L))
\* to max(C.map(a, L), C.map(b, L)) for the display interval [a, b); its start
\* is never greater than its end.
C2_PixelRangeNormalized ==
    (axis.some /\ ret.op = "axis_pixel_range") =>
        LET ma == Inner_map(C, Display[1], ret.arg[1])
            mb == Inner_map(C, Display[2], ret.arg[1])
        IN  /\ ret.val = <<Min(ma, mb), Max(ma, mb)>>
            /\ ret.val[1] <= ret.val[2]

\* the display interval's start mapped right of its end, under a pixel limit
\* with low > high
C2_Witness ==
    /\ axis.some /\ ret.op = "axis_pixel_range"
    /\ ret.arg[1][1] > ret.arg[1][2]
    /\ Inner_map(C, Display[1], ret.arg[1]) > Inner_map(C, Display[2], ret.arg[1])
    /\ ret.val[1] < ret.val[2]

\* C7: D.range() equals C.range() and D.key_points(n) equals C.key_points(n),
\* independent of the display interval.
C7_RangeAndKeyPointsForwarded ==
    /\ (axis.some /\ ret.op = "range") => ret.val = Inner_range(C)
    /\ (axis.some /\ ret.op = "key_points") => ret.val = Inner_key_points(C, ret.arg[1])

\* key_points returned a tick that lies outside the display interval
C7_Witness ==
    /\ Windowed /\ ret.op = "key_points"
    /\ FLt(Display[1], Display[2])
    /\ \E i \in DOMAIN ret.val :
        FLt(ret.val[i], Display[1]) \/ FLe(Display[2], ret.val[i])

\* the round-trip contract of DiscreteRanged, for the decorator d
RoundTrip(d) ==
    /\ \A i \in 0..(PartialAxis_size(d) - 1) :
        /\ PartialAxis_from_index(d, i).some
        /\ PartialAxis_index_of(d, PartialAxis_from_index(d, i).v) = Some(i)
    /\ \A v \in Values("int") :
        PartialAxis_index_of(d, v).some =>
            PartialAxis_from_index(d, PartialAxis_index_of(d, v).v) = Some(v)
    /\ \A i \in PartialAxis_size(d)..(PartialAxis_size(d) + MaxIndex) :
        ~PartialAxis_from_index(d, i).some

\* C8: over a discrete inner coordinate, D.size(), D.index_of(v) and
\* D.from_index(i) equal C's results regardless of the display interval, and D
\* satisfies the round trip: index_of(from_index(i)) = i for i < size,
\* from_index(index_of(v)) = v for members, from_index(i) absent for i >= size.
C8_DiscreteForwarded ==
    (axis.some /\ C.T = "int") =>
        /\ ret.op = "size" => ret.val = Inner_size(C)
        /\ ret.op = "index_of" => ret.val = Inner_index_of(C, ret.arg[1])
        /\ ret.op = "from_index" => ret.val = Inner_from_index(C, ret.arg[1])
        /\ RoundTrip(axis.v)

\* index_of found a member of the inner domain that lies outside the display
\* interval, at an index the display interval would not have given
C8_Witness ==
    /\ Windowed /\ C.T = "int" /\ ret.op = "index_of" /\ ret.val.some
    /\ ~(FLe(Display[1], ret.arg[1]) /\ FLt(ret.arg[1], Display[2]))
    /\ PartialAxis_size(axis.v) > 1

\* ---------------------------------------- properties of make_partial_axis
Made == call.fn = "make_partial_axis"

\* the arguments of the make_partial_axis call: the visible interval as
\* given, as converted to f64, and the fraction
VisLeft == call.axis_range[1]

VisRight == call.axis_range[2]

PartStart == call.part[1]

PartEnd == call.part[2]

LeftF == cast_to_f64(call.T, VisLeft)

RightF == cast_to_f64(call.T, VisRight)

FullLeftF == full_left(LeftF.v, RightF.v, call.part)

FullRightF == full_right(LeftF.v, RightF.v, call.part)

\* 0 <= part.start < part.end <= 1
ProperPart == FLe(I(0), PartStart) /\ FLt(PartStart, PartEnd) /\ FLe(PartEnd, I(1))

\* both visible endpoints are finite and convert to f64 without rounding
ExactEndpoints ==
    /\ IsFin(VisLeft) /\ IsFin(VisRight)
    /\ LeftF = Some(VisLeft) /\ RightF = Some(VisRight)

\* C3: make_partial_axis with a zero-width fraction (part.start = part.end)
\* returns None for every visible interval and every value type.
C3_ZeroWidthIsNone ==
    (Made /\ PartStart = PartEnd) => ~axis.some

\* C6: make_partial_axis returns None, and constructs no decorator, whenever
\* one of its four numeric conversions fails: a visible endpoint that is not
\* representable as an f64, or a full bound that is not representable in T.
C6_FailedConversionIsNone ==
    (Made /\ (\/ ~LeftF.some
              \/ ~RightF.some
              \/ ~cast_from_f64(call.T, FullLeftF).some
              \/ ~cast_from_f64(call.T, FullRightF).some))
        => axis = None

\* full_left converted, full_right (finite, beyond the integer range) did not,
\* and nothing was constructed
C6_Witness ==
    /\ Made /\ ~axis.some /\ ProperPart /\ FLt(VisLeft, VisRight) /\ ExactEndpoints
    /\ LeftF.some /\ RightF.some
    /\ cast_from_f64(call.T, FullLeftF).some
    /\ IsFin(FullRightF) /\ ~cast_from_f64(call.T, FullRightF).some

\* the scenario of the specification: [10.0, 20.0) shown on [0.25, 0.75)
Scenario ==
    /\ Made /\ call.T = "f64"
    /\ call.axis_range = <<I(10), I(20)>>
    /\ call.part = <<Fin(1, 4), Fin(3, 4)>>

\* C4 as stated: the scenario computes the full domain [0.0, 30.0), and
\* axis_pixel_range over the pixel limit (0, 100) is (25, 75).
C4_FullDomain0To30 ==
    Scenario =>
        /\ axis.some
        /\ Inner_range(C) = <<I(0), I(30)>>
        /\ (ret.op = "axis_pixel_range" /\ ret.arg[1] = <<0, 100>>) => ret.val = <<25, 75>>

\* C4 as amended: the scenario computes the full domain [5.0, 25.0), and
\* axis_pixel_range over the pixel limit (0, 100) is (25, 75).
C4_FullDomain5To25 ==
    Scenario =>
        /\ axis.some
        /\ Inner_range(C) = <<I(5), I(25)>>
        /\ (ret.op = "axis_pixel_range" /\ ret.arg[1] = <<0, 100>>) => ret.val = <<25, 75>>

\* the scenario's axis was asked for its pixel range over (0, 100)
C4_Witness ==
    Scenario /\ axis.some /\ ret.op = "axis_pixel_range" /\ ret.arg[1] = <<0, 100>>

\* C5: for a visible interval [a, b) with a < b and a fraction with
\* 0 <= p0 < p1 <= 1 for which make_partial_axis succeeds, for every value
\* type, axis_pixel_range with the pixel limit (0, 1000) has a length within
\* one pixel of 1000 * (p1 - p0).  Stated for the intervals whose endpoints
\* are finite and convert to f64 without rounding, where it already fails.
C5_LengthWithinOnePixel ==
    (/\ Made /\ axis.some /\ ProperPart
     /\ ExactEndpoints /\ FLt(VisLeft, VisRight)
     /\ ret.op = "axis_pixel_range" /\ ret.arg[1] = <<0, 1000>>) =>
        LET len == I(ret.val[2] - ret.val[1])
            want == FMul(I(1000), FSub(PartEnd, PartStart))
        IN  FLe(FSub(len, want), I(1)) /\ FLe(FSub(want, len), I(1))

\* C9: whenever make_partial_axis succeeds, the display interval is the
\* visible interval unchanged, the inner coordinate covers
\* [full_left, full_right) with full_left = left - S * part.start,
\* full_right = right + S * (1 - part.end), S = (right - left) /
\* (part.end - part.start), the full domain has length S, and the visible
\* interval sits exactly at the fractions part.start and part.end of it.
\* Stated for left < right, 0 <= part.start < part.end <= 1 and endpoints that
\* are finite and convert to f64 without rounding, where it already fails.
C9_VisibleAtExactFractions ==
    (Made /\ axis.some /\ ProperPart /\ ExactEndpoints /\ FLt(VisLeft, VisRight)) =>
        LET S == FDiv(FSub(VisRight, VisLeft), FSub(PartEnd, PartStart))
            fl == FSub(VisLeft, FMul(S, PartStart))
            fr == FAdd(VisRight, FMul(S, FSub(I(1), PartEnd)))
            len == FSub(C.end, C.start)
        IN  /\ Display = <<VisLeft, VisRight>>
            /\ Inner_range(C) = <<fl, fr>>
            /\ len = S
            /\ FSub(VisLeft, C.start) = FMul(PartStart, len)
            /\ FSub(VisRight, C.start) = FMul(PartEnd, len)

\* the pixel limit, start before end
Normalized(limit) == <<Min(limit[1], limit[2]), Max(limit[1], limit[2])>>

\* C10 as stated: for left <= right and 0 <= part.start < part.end <= 1, when
\* make_partial_axis succeeds the full domain contains the visible interval,
\* also after truncation to an integer type; with the fraction [0, 1) the full
\* domain is the visible interval and axis_pixel_range spans the pixel limit.
C10_FullContainsVisible ==
    (Made /\ axis.some /\ ProperPart /\ FLe(VisLeft, VisRight)) =>
        /\ FLe(C.start, VisLeft)
        /\ FLe(VisRight, C.end)
        /\ call.part = <<I(0), I(1)>> =>
            /\ Inner_range(C) = <<VisLeft, VisRight>>
            /\ ret.op = "axis_pixel_range" => ret.val = Normalized(ret.arg[1])

\* C10 as amended: the same, for finite endpoints that convert to f64 without
\* rounding; axis_pixel_range spans the pixel limit when moreover left < right.
C10_FullContainsExactVisible ==
    (Made /\ axis.some /\ ProperPart /\ FLe(VisLeft, VisRight) /\ ExactEndpoints) =>
        /\ FLe(C.start, VisLeft)
        /\ FLe(VisRight, C.end)
        /\ call.part = <<I(0), I(1)>> =>
            /\ Inner_range(C) = <<VisLeft, VisRight>>
            /\ (ret.op = "axis_pixel_range" /\ FLt(VisLeft, VisRight)) =>
                    ret.val = Normalized(ret.arg[1])

\* an integer axis whose full bounds were both truncated toward zero
C10_Witness ==
    /\ Made /\ axis.some /\ ProperPart /\ FLt(VisLeft, VisRight) /\ ExactEndpoints
    /\ call.T = "int"
    /\ FullLeftF.d # 1 /\ FullRightF.d # 1
    /\ FLt(FullLeftF, I(0)) /\ FLt(C.start, VisLeft)
====
